---- MODULE Spec2Model ----
(***************************************************************************)
(* Model of the GraphQL server of graphql-yoga-server: the resolvers of    *)
(* src/src/schema.ts, the context builder and the auth helper, running as  *)
(* concurrent requests against one relational store (prisma/schema.prisma).*)
(*                                                                         *)
(* Strings are sequences of one-character strings, so that parsing and     *)
(* substring search are computed and not assumed.  A nullable value is a   *)
(* sequence of length 0 (null / undefined) or 1 (the value).               *)
(***************************************************************************)
EXTENDS Integers, Sequences, FiniteSets, TLC

VARIABLES
    links,          \* rows of table Link
    comments,       \* rows of table Comment
    users,          \* rows of table User
    nextLinkId,     \* sequence behind Link.id  @default(autoincrement())
    nextCommentId,  \* sequence behind Comment.id @default(autoincrement())
    pc,             \* per request slot: the await the request is suspended at
    req,            \* per request slot: the operation and its arguments
    ctx,            \* per request slot: the request header / GraphQLContext
    out,            \* per request slot: the response (data or error)
    ops             \* per request slot: store operations issued by the resolver

vars == <<links, comments, users, nextLinkId, nextCommentId, pc, req, ctx, out, ops>>

-----------------------------------------------------------------------------
(* Bounds of the model *)

\* ids handed out by the Link sequence while new postLink requests are accepted
MaxLinkId == 2
\* ids handed out by the Comment sequence while new comments are accepted
MaxCommentId == 2

\* concurrent request slots (two suffice for every check-then-act race)
Slots == {"r1", "r2"}

-----------------------------------------------------------------------------
(* Values *)

Null == <<>>
Some(v) == <<v>>
IsNull(o) == o = <<>>

Digits == {"0", "1", "2", "3", "4", "5", "6", "7", "8", "9"}

DigitValue(c) ==
    CASE c = "0" -> 0 [] c = "1" -> 1 [] c = "2" -> 2 [] c = "3" -> 3
      [] c = "4" -> 4 [] c = "5" -> 5 [] c = "6" -> 6 [] c = "7" -> 7
      [] c = "8" -> 8 [] c = "9" -> 9

RECURSIVE DecimalValue(_)
DecimalValue(s) ==
    IF s = <<>> THEN 0
    ELSE 10 * DecimalValue(SubSeq(s, 1, Len(s) - 1)) + DigitValue(s[Len(s)])

AllDigits(s) == \A i \in 1..Len(s) : s[i] \in Digits

\* /^(\d+)$/.test(value): one or more ASCII digits and nothing else
MatchesDigits(value) == Len(value) >= 1 /\ AllDigits(value)

\* the longest prefix of digits, as parseInt(value, 10) reads it
RECURSIVE DigitPrefix(_)
DigitPrefix(s) ==
    IF s = <<>> \/ s[1] \notin Digits THEN <<>>
    ELSE <<s[1]>> \o DigitPrefix(Tail(s))

\* a parser that drops the regular-expression test and keeps parseInt's result
parseIntSafe_PrefixOnly(value) ==
    IF DigitPrefix(value) # <<>> THEN Some(DecimalValue(DigitPrefix(value))) ELSE Null

\* parseIntSafe: number | null
parseIntSafe(value) ==
    IF MatchesDigits(value) THEN Some(DecimalValue(value)) ELSE Null

\* the decimal digits of a natural number (an ID leaves the server as a string)
RECURSIVE ToDigits(_)
ToDigits(n) ==
    LET d == <<CHOOSE c \in Digits : DigitValue(c) = n % 10>>
    IN  IF n < 10 THEN d ELSE ToDigits(n \div 10) \o d

\* Number(string) for strings of digits, "-", "." and letters: the numeric value
\* of [-]digits[.digits] and of the empty string, NaN otherwise.
\* kind "int" carries the value; "float" is a non-integral number.
Number(s) ==
    LET neg   == s # <<>> /\ s[1] = "-"
        body  == IF neg THEN Tail(s) ELSE s
        dots  == {i \in 1..Len(body) : body[i] = "."}
        whole == IF dots = {} THEN body
                 ELSE SubSeq(body, 1, (CHOOSE i \in dots : TRUE) - 1)
        frac  == IF dots = {} THEN <<>>
                 ELSE SubSeq(body, (CHOOSE i \in dots : TRUE) + 1, Len(body))
        value == IF neg THEN 0 - DecimalValue(whole) ELSE DecimalValue(whole)
    IN  IF s = <<>> THEN [kind |-> "int", value |-> 0]
        ELSE IF Cardinality(dots) > 1 \/ ~AllDigits(whole) \/ ~AllDigits(frac)
                \/ (whole = <<>> /\ frac = <<>>)
        THEN [kind |-> "NaN", value |-> 0]
        ELSE IF \E i \in 1..Len(frac) : frac[i] # "0"
        THEN [kind |-> "float", value |-> value]
        ELSE [kind |-> "int", value |-> value]

\* s.includes(needle): needle occurs in s as a contiguous, case-sensitive run
Contains(s, needle) ==
    \E i \in 1..(Len(s) - Len(needle) + 1) : SubSeq(s, i, i + Len(needle) - 1) = needle

\* JavaScript truthiness of a string | undefined
Truthy(o) == ~IsNull(o) /\ o[1] # <<>>

Min(a, b) == IF a < b THEN a ELSE b

-----------------------------------------------------------------------------
(* Errors and responses *)

NoError == [name |-> "none", text |-> "none", about |-> <<>>]

\* new GraphQLError(message): the message template and the values put in it
GraphQLError(text, about) == [name |-> "GraphQLError", text |-> text, about |-> about]

\* PrismaClientKnownRequestError with its code (P2003: foreign key constraint
\* failed; P2025: the record the operation depends on was not found)
PrismaKnownError(code) ==
    [name |-> "PrismaClientKnownRequestError", text |-> code, about |-> <<>>]

\* PrismaClientValidationError: the argument is no value of the column's type
PrismaValidationError == [name |-> "PrismaClientValidationError", text |-> "id", about |-> <<>>]

\* JsonWebTokenError / TokenExpiredError thrown by verify
JwtError(name, text) == [name |-> name, text |-> text, about |-> <<>>]

Pending == [status |-> "pending", data |-> <<>>, err |-> NoError, comments |-> Null]
Resolved(data) == [status |-> "ok", data |-> data, err |-> NoError, comments |-> Null]
Rejected(err) == [status |-> "error", data |-> <<>>, err |-> err, comments |-> Null]

NoRequest == [op |-> "none"]
NoContext == [currentUser |-> Null]

-----------------------------------------------------------------------------
(* The store: tables Link, Comment and User of prisma/schema.prisma *)

RECURSIVE SortById(_)
SortById(rows) ==
    IF rows = {} THEN <<>>
    ELSE LET first == CHOOSE r \in rows : \A q \in rows : r.id <= q.id
         IN  <<first>> \o SortById(rows \ {first})

\* findUnique({ where: { id } }): the row or null
FindUnique(rows, id) ==
    IF \E r \in rows : r.id = id THEN Some(CHOOSE r \in rows : r.id = id) ELSE Null

\* a sequence that is never advanced
Autoincrement_Constant(next) == 1

\* @id @default(autoincrement()): the id the next created row gets
Autoincrement(next) == next

\* a relation without a foreign key: any linkId is accepted
ForeignKeyHolds_Unchecked(lks, linkId) == TRUE

\* Comment.link: @relation(fields: [linkId], references: [id]); linkId Int?
ForeignKeyHolds(lks, linkId) ==
    IsNull(linkId) \/ \E l \in lks : l.id = linkId[1]

\* a relation whose delete leaves the dependent rows as they are
OnDeleteLink_NoAction(cms, id) == cms

\* a relation declared onDelete: SetNull
OnDeleteLink_SetNull(cms, id) ==
    {IF c.linkId = Some(id) THEN [c EXCEPT !.linkId = Null] ELSE c : c \in cms}

\* onDelete: Cascade: the Comments of a deleted Link are deleted with it
OnDeleteLink(cms, id) == {c \in cms : c.linkId # Some(id)}

\* where of linkFeed: {} when the needle is falsy, else description or url contains it
MatchesWhere(l, filterNeedle) ==
    ~Truthy(filterNeedle)
      \/ Contains(l.description, filterNeedle[1])
      \/ Contains(l.url, filterNeedle[1])

\* link.findMany({ where, take, skip })
LinkFindMany(lks, filterNeedle, take, skip) ==
    LET hits == SortById({l \in lks : MatchesWhere(l, filterNeedle)})
    IN  SubSeq(hits, skip + 1, Min(skip + take, Len(hits)))

\* comment.findMany({ where: { linkId } })
CommentFindMany(cms, linkId) == SortById({c \in cms : c.linkId = Some(linkId)})

-----------------------------------------------------------------------------
(* Auth helper and context builder *)

Space == [kind |-> "space", sig |-> "none", exp |-> "none", userId |-> 0]
Word(w) == [kind |-> w, sig |-> "none", exp |-> "none", userId |-> 0]
Jwt(sig, exp, userId) == [kind |-> "jwt", sig |-> sig, exp |-> exp, userId |-> userId]

\* header.split(' '): the pieces between the spaces
RECURSIVE Split(_)
Split(h) ==
    LET sp == {i \in 1..Len(h) : h[i] = Space}
    IN  IF sp = {} THEN <<h>>
        ELSE LET i == CHOOSE j \in sp : \A k \in sp : j <= k
             IN  <<SubSeq(h, 1, i - 1)>> \o Split(SubSeq(h, i + 1, Len(h)))

\* header?.split(' ')[1]: undefined for no header or a header of one piece
BearerToken(header) ==
    IF IsNull(header) \/ Len(Split(header[1])) < 2 THEN Null
    ELSE Some(Split(header[1])[2])

\* verify(token, APP_SECRET): the payload, or the error it throws
verify(token) ==
    IF Len(token) # 1 \/ token[1].kind # "jwt"
    THEN [ok |-> FALSE, userId |-> 0, err |-> JwtError("JsonWebTokenError", "jwt malformed")]
    ELSE IF token[1].sig # "good"
    THEN [ok |-> FALSE, userId |-> 0, err |-> JwtError("JsonWebTokenError", "invalid signature")]
    ELSE IF token[1].exp # "live"
    THEN [ok |-> FALSE, userId |-> 0, err |-> JwtError("TokenExpiredError", "jwt expired")]
    ELSE [ok |-> TRUE, userId |-> token[1].userId, err |-> NoError]

Headers ==
    { Null,
      Some(<<Word("Bearer")>>),
      Some(<<Word("Bearer"), Space>>),
      Some(<<Word("Bearer"), Space, Word("garbage")>>),
      Some(<<Word("Bearer"), Space, Jwt("bad", "live", 1)>>),
      Some(<<Word("Bearer"), Space, Jwt("good", "expired", 1)>>),
      Some(<<Word("Bearer"), Space, Jwt("good", "live", 1)>>),
      Some(<<Word("Bearer"), Space, Jwt("good", "live", 2)>>) }

\* createContext -> authenticateUser, up to its first await.
\* header !== null holds for a string and for undefined alike.
createContext(p, headers) ==
    /\ pc[p] = "idle"
    /\ \E header \in headers :
         LET token == BearerToken(header)
         IN  /\ req' = [req EXCEPT ![p] = [op |-> "request", header |-> header]]
             /\ IF ~Truthy(token)
                THEN /\ pc' = [pc EXCEPT ![p] = "execute"]
                     /\ out' = out
                ELSE IF ~verify(token[1]).ok
                THEN /\ pc' = [pc EXCEPT ![p] = "done"]
                     /\ out' = [out EXCEPT ![p] = Rejected(verify(token[1]).err)]
                ELSE /\ pc' = [pc EXCEPT ![p] = "auth_findUser"]
                     /\ out' = out
    /\ UNCHANGED <<links, comments, users, nextLinkId, nextCommentId, ctx, ops>>

\* authenticateUser: return await prisma.user.findUnique({ where: { id: userId } })
authenticateUser_findUnique(p) ==
    /\ pc[p] = "auth_findUser"
    /\ ctx' = [ctx EXCEPT ![p].currentUser =
                 FindUnique(users, verify(BearerToken(req[p].header)[1]).userId)]
    /\ pc' = [pc EXCEPT ![p] = "execute"]
    /\ UNCHANGED <<links, comments, users, nextLinkId, nextCommentId, req, out, ops>>

-----------------------------------------------------------------------------
(* Inputs *)

\* what one client sends, one request after the other
IdStrings == { <<"1">>, <<"2">>, <<"0", "1">>, <<>>, <<"-", "1">>, <<"1", ".", "5">>,
               <<"1", "a">>, <<"a">> }
Descriptions == { <<>>, <<"t">> }
Urls == { <<>>, <<"h", "t">> }
Bodies == { <<>>, <<"b">> }
Needles == { Null, Some(<<>>), Some(<<"h">>), Some(<<"t", "h">>) }
Takes == { Null, Some(-1), Some(0), Some(1), Some(50), Some(51), Some(999) }
Skips == { Null, Some(-1), Some(0), Some(1), Some(50), Some(51) }

\* what concurrent clients send: well-formed mutations on the first rows
LiveIds == { <<"1">>, <<"2">> }
PostedBodies == { <<"b">> }
EditedBodies == { <<"c">> }

\* value ?? fallback
OrElse(o, fallback) == IF IsNull(o) THEN fallback ELSE o[1]

StoreUnchanged == UNCHANGED <<links, comments, users, nextLinkId, nextCommentId>>

\* the request ends here with this response, having issued n more store operations
Finish(p, response, n) ==
    /\ pc' = [pc EXCEPT ![p] = "done"]
    /\ out' = [out EXCEPT ![p] = response]
    /\ ops' = [ops EXCEPT ![p] = @ + n]

\* the request goes on to its next await, having issued n more store operations
Await(p, label, n) ==
    /\ pc' = [pc EXCEPT ![p] = label]
    /\ out' = out
    /\ ops' = [ops EXCEPT ![p] = @ + n]

-----------------------------------------------------------------------------
(* Query resolvers *)

OutOfRange(arg, min, max, value) ==
    GraphQLError("argument value is outside the valud range",
                 [arg |-> arg, value |-> value, min |-> min, max |-> max])

\* a check that forgets the upper bound
applyTakeConstraints_NoMax(min, max, value) ==
    IF value < min THEN [ok |-> FALSE, err |-> OutOfRange("take", min, max, value)]
    ELSE [ok |-> TRUE, value |-> value]

applyTakeConstraints(min, max, value) ==
    IF value < min \/ value > max
    THEN [ok |-> FALSE, err |-> OutOfRange("take", min, max, value)]
    ELSE [ok |-> TRUE, value |-> value]

applySkipConstraints(min, max, value) ==
    IF value < min \/ value > max
    THEN [ok |-> FALSE, err |-> OutOfRange("skip", min, max, value)]
    ELSE [ok |-> TRUE, value |-> value]

\* Query.linkFeed up to its await: where, then take, then skip
linkFeed(p, needles, takes, skips) ==
    /\ pc[p] = "execute"
    /\ \E filterNeedle \in needles, take \in takes, skip \in skips :
         LET t == applyTakeConstraints(1, 50, OrElse(take, 30))
             s == applySkipConstraints(0, 50, OrElse(skip, 0))
         IN  /\ req' = [req EXCEPT ![p] =
                   [op |-> "linkFeed",
                    args |-> [filterNeedle |-> filterNeedle, take |-> take, skip |-> skip]]]
             /\ IF ~t.ok THEN Finish(p, Rejected(t.err), 0)
                ELSE IF ~s.ok THEN Finish(p, Rejected(s.err), 0)
                ELSE Await(p, "linkFeed_findMany", 0)
    /\ UNCHANGED ctx
    /\ StoreUnchanged

\* Query.linkFeed: await context.prisma.link.findMany({ where, take, skip })
linkFeed_findMany(p) ==
    /\ pc[p] = "linkFeed_findMany"
    /\ LET a == req[p].args
       IN  Finish(p, Resolved(Some(LinkFindMany(links, a.filterNeedle,
                                                OrElse(a.take, 30), OrElse(a.skip, 0)))), 1)
    /\ UNCHANGED <<req, ctx>>
    /\ StoreUnchanged

\* Query.link: the type definitions declare the field and resolvers.Query has no
\* entry for it, so the executor's default resolver reads rootValue.link: null
link(p, ids) ==
    /\ pc[p] = "execute"
    /\ \E linkId \in ids :
         req' = [req EXCEPT ![p] = [op |-> "link", args |-> [id |-> linkId]]]
    /\ Finish(p, Resolved(Null), 0)
    /\ UNCHANGED ctx
    /\ StoreUnchanged

\* findUnique({ where: { id: Number(arg) } }): a value that is no Int is refused
FindUniqueByNumber(rows, arg) ==
    IF Number(arg).kind = "int"
    THEN Resolved(FindUnique(rows, Number(arg).value))
    ELSE Rejected(PrismaValidationError)

\* Query.linkComments, called
linkComments(p, ids) ==
    /\ pc[p] = "execute"
    /\ \E linkId \in ids :
         req' = [req EXCEPT ![p] = [op |-> "linkComments", args |-> [id |-> linkId]]]
    /\ Await(p, "linkComments_findUnique", 0)
    /\ UNCHANGED ctx
    /\ StoreUnchanged

\* Query.linkComments: await context.prisma.link.findUnique
linkComments_findUnique(p) ==
    /\ pc[p] = "linkComments_findUnique"
    /\ Finish(p, FindUniqueByNumber(links, req[p].args.id), 1)
    /\ UNCHANGED <<req, ctx>>
    /\ StoreUnchanged

\* Query.comment, called
comment(p, ids) ==
    /\ pc[p] = "execute"
    /\ \E commentId \in ids :
         req' = [req EXCEPT ![p] = [op |-> "comment", args |-> [id |-> commentId]]]
    /\ Await(p, "comment_findUnique", 0)
    /\ UNCHANGED ctx
    /\ StoreUnchanged

\* Query.comment: await context.prisma.comment.findUnique
comment_findUnique(p) ==
    /\ pc[p] = "comment_findUnique"
    /\ Finish(p, FindUniqueByNumber(comments, req[p].args.id), 1)
    /\ UNCHANGED <<req, ctx>>
    /\ StoreUnchanged

ReturnsLink(op) == op \in {"postLink", "deleteLink", "linkComments"}

\* Link.comments, resolved for the Link a top-level field returned when the
\* selection asks for it: comment.findMany({ where: { linkId: parent.id } })
Link_comments(p) ==
    /\ pc[p] = "done"
    /\ ReturnsLink(req[p].op)
    /\ out[p].status = "ok"
    /\ ~IsNull(out[p].data)
    /\ IsNull(out[p].comments)
    /\ out' = [out EXCEPT ![p].comments = Some(CommentFindMany(comments, out[p].data[1].id))]
    /\ ops' = [ops EXCEPT ![p] = @ + 1]
    /\ UNCHANGED <<pc, req, ctx>>
    /\ StoreUnchanged

-----------------------------------------------------------------------------
(* Mutation resolvers *)

\* requests that will still draw from the Link / Comment sequence
LinkCreatesInFlight == Cardinality({q \in Slots : pc[q] = "postLink_create"})
CommentCreatesInFlight ==
    Cardinality({q \in Slots : pc[q] \in {"postCommentOnLink_findUnique",
                                          "postCommentOnLink_create"}})

\* a check that rejects only when both fields are missing
PostLinkRejects_Both(description, url) == description = <<>> /\ url = <<>>

\* if (!description || !url)
PostLinkRejects(description, url) == description = <<>> \/ url = <<>>

\* Mutation.postLink up to its await
postLink(p, descriptions, urls) ==
    /\ pc[p] = "execute"
    /\ \E description \in descriptions, url \in urls :
         /\ req' = [req EXCEPT ![p] =
               [op |-> "postLink", args |-> [description |-> description, url |-> url]]]
         /\ IF PostLinkRejects(description, url)
            THEN Finish(p, Rejected(GraphQLError("All fields are required.", <<>>)), 0)
            ELSE /\ nextLinkId + LinkCreatesInFlight <= MaxLinkId
                 /\ Await(p, "postLink_create", 0)
    /\ UNCHANGED ctx
    /\ StoreUnchanged

\* Mutation.postLink: await context.prisma.link.create({ data: { description, url } })
postLink_create(p) ==
    /\ pc[p] = "postLink_create"
    /\ LET newLink == [id |-> Autoincrement(nextLinkId),
                       description |-> req[p].args.description,
                       url |-> req[p].args.url]
       IN  /\ links' = links \cup {newLink}
           /\ nextLinkId' = nextLinkId + 1
           /\ Finish(p, Resolved(Some(newLink)), 1)
    /\ UNCHANGED <<comments, users, nextCommentId, req, ctx>>

\* .catch of a store call: P2003 becomes the resolver's GraphQLError, any other
\* error is rejected as it is
CatchP2003(err, replacement) ==
    IF err.name = "PrismaClientKnownRequestError" /\ err.text = "P2003"
    THEN replacement ELSE err

\* Mutation.deleteLink up to its await
deleteLink(p, ids) ==
    /\ pc[p] = "execute"
    /\ \E id \in ids :
         /\ req' = [req EXCEPT ![p] = [op |-> "deleteLink", args |-> [id |-> id]]]
         /\ IF IsNull(parseIntSafe(id))
            THEN Finish(p, Rejected(GraphQLError("Cannot delete non-existing link with id", id)), 0)
            ELSE Await(p, "deleteLink_findUnique", 0)
    /\ UNCHANGED ctx
    /\ StoreUnchanged

\* Mutation.deleteLink: linkToDelete = await context.prisma.link.findUnique
deleteLink_findUnique(p) ==
    /\ pc[p] = "deleteLink_findUnique"
    /\ LET id == req[p].args.id
           linkToDelete == FindUnique(links, parseIntSafe(id)[1])
       IN  IF IsNull(linkToDelete)
           THEN Finish(p, Rejected(GraphQLError("Link with ID does not exist.", id)), 1)
           ELSE Await(p, "deleteLink_delete", 1)
    /\ UNCHANGED <<req, ctx>>
    /\ StoreUnchanged

\* Mutation.deleteLink: await context.prisma.link.delete(...).catch(...)
deleteLink_delete(p) ==
    /\ pc[p] = "deleteLink_delete"
    /\ LET id == req[p].args.id
           safeID == parseIntSafe(id)[1]
           row == FindUnique(links, safeID)
       IN  IF IsNull(row)
           THEN /\ Finish(p, Rejected(CatchP2003(PrismaKnownError("P2025"),
                        GraphQLError("Cannot delete non-existing link with id", id))), 1)
                /\ UNCHANGED <<links, comments>>
           ELSE /\ links' = links \ {row[1]}
                /\ comments' = OnDeleteLink(comments, safeID)
                /\ Finish(p, Resolved(row), 1)
    /\ UNCHANGED <<users, nextLinkId, nextCommentId, req, ctx>>

\* Mutation.postCommentOnLink up to its await
postCommentOnLink(p, ids, bodies) ==
    /\ pc[p] = "execute"
    /\ \E linkId \in ids, body \in bodies :
         /\ req' = [req EXCEPT ![p] =
               [op |-> "postCommentOnLink", args |-> [id |-> linkId, body |-> body]]]
         /\ IF IsNull(parseIntSafe(linkId))
            THEN Finish(p, Rejected(GraphQLError(
                     "Cannot post comment on non-existing link with id", linkId)), 0)
            ELSE /\ nextCommentId + CommentCreatesInFlight <= MaxCommentId
                 /\ Await(p, "postCommentOnLink_findUnique", 0)
    /\ UNCHANGED ctx
    /\ StoreUnchanged

\* Mutation.postCommentOnLink: linkToPostCommentOn = await ...link.findUnique,
\* then the check of body
postCommentOnLink_findUnique(p) ==
    /\ pc[p] = "postCommentOnLink_findUnique"
    /\ LET linkId == req[p].args.id
           linkToPostCommentOn == FindUnique(links, parseIntSafe(linkId)[1])
       IN  IF IsNull(linkToPostCommentOn)
           THEN Finish(p, Rejected(GraphQLError("Link with ID does not exist.", linkId)), 1)
           ELSE IF req[p].args.body = <<>>
           THEN Finish(p, Rejected(GraphQLError("Body is a required field", <<>>)), 1)
           ELSE Await(p, "postCommentOnLink_create", 1)
    /\ UNCHANGED <<req, ctx>>
    /\ StoreUnchanged

\* Mutation.postCommentOnLink: await context.prisma.comment.create(...).catch(...)
\* The sequence is drawn from before the foreign key is checked.
postCommentOnLink_create(p) ==
    /\ pc[p] = "postCommentOnLink_create"
    /\ LET linkId == req[p].args.id
           safeID == parseIntSafe(linkId)[1]
           newComment == [id |-> Autoincrement(nextCommentId),
                          body |-> req[p].args.body,
                          linkId |-> Some(safeID)]
       IN  IF ForeignKeyHolds(links, Some(safeID))
           THEN /\ comments' = comments \cup {newComment}
                /\ Finish(p, Resolved(Some(newComment)), 1)
           ELSE /\ comments' = comments
                /\ Finish(p, Rejected(CatchP2003(PrismaKnownError("P2003"),
                        GraphQLError("Cannot post comment on non-existing link with id",
                                     linkId))), 1)
    /\ nextCommentId' = nextCommentId + 1
    /\ UNCHANGED <<links, users, nextLinkId, req, ctx>>

\* Mutation.deleteCommentOnLink up to its await
deleteCommentOnLink(p, ids) ==
    /\ pc[p] = "execute"
    /\ \E commentId \in ids :
         /\ req' = [req EXCEPT ![p] = [op |-> "deleteCommentOnLink", args |-> [id |-> commentId]]]
         /\ IF IsNull(parseIntSafe(commentId))
            THEN Finish(p, Rejected(GraphQLError(
                     "Cannot delete non-existing comment with id", commentId)), 0)
            ELSE Await(p, "deleteCommentOnLink_findUnique", 0)
    /\ UNCHANGED ctx
    /\ StoreUnchanged

\* Mutation.deleteCommentOnLink: commentToDelete = await ...comment.findUnique
deleteCommentOnLink_findUnique(p) ==
    /\ pc[p] = "deleteCommentOnLink_findUnique"
    /\ LET commentId == req[p].args.id
           commentToDelete == FindUnique(comments, parseIntSafe(commentId)[1])
       IN  IF IsNull(commentToDelete)
           THEN Finish(p, Rejected(GraphQLError("Comment with ID does not exist.", commentId)), 1)
           ELSE Await(p, "deleteCommentOnLink_delete", 1)
    /\ UNCHANGED <<req, ctx>>
    /\ StoreUnchanged

\* Mutation.deleteCommentOnLink: await context.prisma.comment.delete(...).catch(...)
deleteCommentOnLink_delete(p) ==
    /\ pc[p] = "deleteCommentOnLink_delete"
    /\ LET commentId == req[p].args.id
           row == FindUnique(comments, parseIntSafe(commentId)[1])
       IN  IF IsNull(row)
           THEN /\ Finish(p, Rejected(CatchP2003(PrismaKnownError("P2025"),
                        GraphQLError("Cannot delete a non-existing comment with id",
                                     commentId))), 1)
                /\ comments' = comments
           ELSE /\ comments' = comments \ {row[1]}
                /\ Finish(p, Resolved(row), 1)
    /\ UNCHANGED <<links, users, nextLinkId, nextCommentId, req, ctx>>

\* Mutation.updateCommentOnLink up to its await
updateCommentOnLink(p, ids, bodies) ==
    /\ pc[p] = "execute"
    /\ \E commentId \in ids, body \in bodies :
         /\ req' = [req EXCEPT ![p] =
               [op |-> "updateCommentOnLink", args |-> [id |-> commentId, body |-> body]]]
         /\ IF IsNull(parseIntSafe(commentId))
            THEN Finish(p, Rejected(GraphQLError(
                     "Cannot delete non-existing comment with id", commentId)), 0)
            ELSE Await(p, "updateCommentOnLink_findUnique", 0)
    /\ UNCHANGED ctx
    /\ StoreUnchanged

\* Mutation.updateCommentOnLink: commentToDelete = await ...comment.findUnique
updateCommentOnLink_findUnique(p) ==
    /\ pc[p] = "updateCommentOnLink_findUnique"
    /\ LET commentId == req[p].args.id
           commentToDelete == FindUnique(comments, parseIntSafe(commentId)[1])
       IN  IF IsNull(commentToDelete)
           THEN Finish(p, Rejected(GraphQLError("Comment with ID does not exist.", commentId)), 1)
           ELSE Await(p, "updateCommentOnLink_update", 1)
    /\ UNCHANGED <<req, ctx>>
    /\ StoreUnchanged

\* Mutation.updateCommentOnLink: await context.prisma.comment.update(...).catch(...)
updateCommentOnLink_update(p) ==
    /\ pc[p] = "updateCommentOnLink_update"
    /\ LET commentId == req[p].args.id
           row == FindUnique(comments, parseIntSafe(commentId)[1])
           updatedComment == [row[1] EXCEPT !.body = req[p].args.body]
       IN  IF IsNull(row)
           THEN /\ Finish(p, Rejected(CatchP2003(PrismaKnownError("P2025"),
                        GraphQLError("Cannot post comment on non-existing link with id",
                                     commentId))), 1)
                /\ comments' = comments
           ELSE /\ comments' = (comments \ {row[1]}) \cup {updatedComment}
                /\ Finish(p, Resolved(Some(updatedComment)), 1)
    /\ UNCHANGED <<links, users, nextLinkId, nextCommentId, req, ctx>>

-----------------------------------------------------------------------------
(* HTTP adapter *)

\* the route handler sends the response; the slot is free for the next request
reply_send(p) ==
    /\ pc[p] = "done"
    /\ pc' = [pc EXCEPT ![p] = "idle"]
    /\ req' = [req EXCEPT ![p] = NoRequest]
    /\ ctx' = [ctx EXCEPT ![p] = NoContext]
    /\ out' = [out EXCEPT ![p] = Pending]
    /\ ops' = [ops EXCEPT ![p] = 0]
    /\ StoreUnchanged

-----------------------------------------------------------------------------
(* Specification *)

\* an empty database after the migrations, or one seeded with a user
Init ==
    /\ links = {}
    /\ comments = {}
    /\ users \in {{}, {[id |-> 1]}}
    /\ nextLinkId = 1
    /\ nextCommentId = 1
    /\ pc = [p \in Slots |-> "idle"]
    /\ req = [p \in Slots |-> NoRequest]
    /\ ctx = [p \in Slots |-> NoContext]
    /\ out = [p \in Slots |-> Pending]
    /\ ops = [p \in Slots |-> 0]

\* one client: every operation, every argument, one request at a time
Next ==
    \E p \in {"r1"} :
        \/ createContext(p, Headers)
        \/ authenticateUser_findUnique(p)
        \/ linkFeed(p, Needles, Takes, Skips)
        \/ linkFeed_findMany(p)
        \/ link(p, IdStrings)
        \/ linkComments(p, IdStrings)
        \/ linkComments_findUnique(p)
        \/ comment(p, IdStrings)
        \/ comment_findUnique(p)
        \/ Link_comments(p)
        \/ postLink(p, Descriptions, Urls)
        \/ postLink_create(p)
        \/ deleteLink(p, IdStrings)
        \/ deleteLink_findUnique(p)
        \/ deleteLink_delete(p)
        \/ postCommentOnLink(p, IdStrings, Bodies)
        \/ postCommentOnLink_findUnique(p)
        \/ postCommentOnLink_create(p)
        \/ deleteCommentOnLink(p, IdStrings)
        \/ deleteCommentOnLink_findUnique(p)
        \/ deleteCommentOnLink_delete(p)
        \/ updateCommentOnLink(p, IdStrings, Bodies)
        \/ updateCommentOnLink_findUnique(p)
        \/ updateCommentOnLink_update(p)
        \/ reply_send(p)

Spec == Init /\ [][Next]_vars

\* concurrent clients: the mutations and the comment query, interleaved at
\* every await
NextRace ==
    \E p \in Slots :
        \/ createContext(p, {Null})
        \/ comment(p, LiveIds)
        \/ comment_findUnique(p)
        \/ postLink(p, {<<"t">>}, {<<"h", "t">>})
        \/ postLink_create(p)
        \/ deleteLink(p, LiveIds)
        \/ deleteLink_findUnique(p)
        \/ deleteLink_delete(p)
        \/ postCommentOnLink(p, LiveIds, PostedBodies)
        \/ postCommentOnLink_findUnique(p)
        \/ postCommentOnLink_create(p)
        \/ deleteCommentOnLink(p, LiveIds)
        \/ deleteCommentOnLink_findUnique(p)
        \/ deleteCommentOnLink_delete(p)
        \/ updateCommentOnLink(p, LiveIds, EditedBodies)
        \/ updateCommentOnLink_findUnique(p)
        \/ updateCommentOnLink_update(p)
        \/ reply_send(p)

SpecRace == Init /\ [][NextRace]_vars

-----------------------------------------------------------------------------
(* Properties *)

Stepped(p, from, to) == pc[p] = from /\ pc'[p] = to

\* C1: a linkFeed call whose take (default 30) is outside 1..50 or whose skip
\* (default 0) is outside 0..50 ends with a GraphQLError that names the
\* offending argument, its value and its bounds, and carries no data; a call with
\* both in range never ends with an error.
C1_LinkFeedBounds ==
    \A p \in Slots :
        req[p].op = "linkFeed" =>
            LET take == IF req[p].args.take = Null THEN 30 ELSE req[p].args.take[1]
                skip == IF req[p].args.skip = Null THEN 0 ELSE req[p].args.skip[1]
                takeBad == take \notin 1..50
                skipBad == skip \notin 0..50
                e == out[p].err
            IN  IF takeBad \/ skipBad
                THEN /\ pc[p] = "done"
                     /\ out[p].status = "error"
                     /\ out[p].data = Null
                     /\ ops[p] = 0
                     /\ e.name = "GraphQLError"
                     /\ e.text = "argument value is outside the valud range"
                     /\ \/ /\ takeBad
                           /\ e.about = [arg |-> "take", value |-> take, min |-> 1, max |-> 50]
                        \/ /\ skipBad
                           /\ e.about = [arg |-> "skip", value |-> skip, min |-> 0, max |-> 50]
                ELSE out[p].status # "error"

\* C1 witness: linkFeed(take: 999) and a linkFeed with skip 51 have been refused
C1_Witness ==
    \E p \in Slots :
        /\ pc[p] = "done"
        /\ req[p].op = "linkFeed"
        /\ req[p].args.take = Some(999)
        /\ out[p].status = "error"
        /\ out[p].err.about.arg = "take"

\* C2: postLink called with an empty description or an empty url ends at once
\* with an error, issues no store operation and leaves the Link and Comment
\* rows as they were.
C2_PostLinkRequiresFields ==
    [][\A p \in Slots :
          (pc[p] = "execute" /\ req'[p].op = "postLink"
             /\ (req'[p].args.description = <<>> \/ req'[p].args.url = <<>>))
          => /\ pc'[p] = "done"
             /\ out'[p].status = "error"
             /\ out'[p].data = Null
             /\ ops'[p] = 0
             /\ links' = links
             /\ comments' = comments]_vars

\* C2 witness: a postLink with a description and an empty url has been refused
\* while the store holds rows
C2_Witness ==
    \E p \in Slots :
        /\ pc[p] = "done"
        /\ req[p].op = "postLink"
        /\ req[p].args.description # <<>>
        /\ req[p].args.url = <<>>
        /\ out[p].status = "error"
        /\ links # {}

\* C3: whenever postCommentOnLink (numeric linkId) reaches its existence check
\* or its create while no Link with that id exists, that step ends the request
\* with a GraphQLError, the Comment rows are unchanged and none references the
\* linkId -- also when the Link was deleted between the check and the create.
C3_NoCommentOnMissingLink ==
    [][\A p \in Slots :
          (/\ req[p].op = "postCommentOnLink"
           /\ pc[p] \in {"postCommentOnLink_findUnique", "postCommentOnLink_create"}
           /\ pc'[p] # pc[p]
           /\ \A l \in links : Some(l.id) # parseIntSafe(req[p].args.id))
          => /\ pc'[p] = "done"
             /\ out'[p].status = "error"
             /\ out'[p].err.name = "GraphQLError"
             /\ comments' = comments
             /\ \A c \in comments' : c.linkId # parseIntSafe(req[p].args.id)]_vars

\* C3 witness: a create was rejected by the store after the existence check had
\* found the Link (the error of the .catch, with a numeric linkId)
C3_Witness ==
    \E p \in Slots :
        /\ pc[p] = "done"
        /\ req[p].op = "postCommentOnLink"
        /\ out[p].status = "error"
        /\ out[p].err.text = "Cannot post comment on non-existing link with id"
        /\ parseIntSafe(req[p].args.id) # Null

\* C4: a deleteLink that reaches its delete while the Link exists succeeds
\* whatever Comments the Link has; after it no Comment of that Link is in the
\* store, the comment query for each of them resolves to null without an error
\* (as it does for every id no Comment has), and a deleted Comment id never
\* comes back.
C4_DeleteLinkCascades ==
    [][/\ \A p \in Slots :
            Stepped(p, "deleteLink_delete", "done") =>
                LET id == parseIntSafe(req[p].args.id)[1]
                IN  /\ (\E l \in links : l.id = id) => out'[p].status = "ok"
                    /\ out'[p].status = "ok" =>
                         /\ \A c \in comments' : c.linkId # Some(id)
                         /\ \A c \in comments :
                              c.linkId = Some(id) =>
                                FindUniqueByNumber(comments', ToDigits(c.id)) = Resolved(Null)
       /\ \A p \in Slots :
            (/\ Stepped(p, "comment_findUnique", "done")
             /\ \A c \in comments : ToDigits(c.id) # req[p].args.id)
            => out'[p] = Resolved(Null)
       /\ \A c \in comments' :
            (\E d \in comments : d.id = c.id) \/ c.id >= nextCommentId
       /\ nextCommentId' >= nextCommentId]_vars

\* C4 witness: a Comment was posted on a Link, the Link was then deleted, and
\* the Comment is gone
C4_Witness ==
    \E p, q \in Slots :
        /\ pc[p] = "done" /\ req[p].op = "deleteLink" /\ out[p].status = "ok"
        /\ pc[q] = "done" /\ req[q].op = "postCommentOnLink" /\ out[q].status = "ok"
        /\ out[q].data[1].linkId = Some(out[p].data[1].id)
        /\ out[q].data[1] \notin comments

NotDecimal(s) == s = <<>> \/ \E i \in 1..Len(s) : s[i] \notin Digits

\* C5: deleteLink, postCommentOnLink, deleteCommentOnLink and updateCommentOnLink
\* called with an id that is not a string of decimal digits end with a
\* 'non-existing' GraphQLError about that id, having issued no store operation.
C5_NonNumericIdRejected ==
    \A p \in Slots :
        (/\ req[p].op \in {"deleteLink", "postCommentOnLink",
                           "deleteCommentOnLink", "updateCommentOnLink"}
         /\ NotDecimal(req[p].args.id))
        => /\ pc[p] = "done"
           /\ out[p].status = "error"
           /\ out[p].err.name = "GraphQLError"
           /\ out[p].err.text \in {"Cannot delete non-existing link with id",
                                   "Cannot post comment on non-existing link with id",
                                   "Cannot delete non-existing comment with id"}
           /\ out[p].err.about = req[p].args.id
           /\ ops[p] = 0

\* C5 witness: deleteLink(id: "1.5") has been refused while Link 1 exists
C5_Witness ==
    \E p \in Slots :
        /\ pc[p] = "done"
        /\ req[p].op = "deleteLink"
        /\ req[p].args.id = <<"1", ".", "5">>
        /\ out[p].status = "error"
        /\ \E l \in links : l.id = 1

\* C6: link(linkId) and comment(commentId), called with the decimal id of an
\* entity, return the stored entity with that id, and null without an error
\* when there is none.
C6_FetchById ==
    \A p \in Slots :
        (/\ pc[p] = "done"
         /\ req[p].op \in {"link", "comment"}
         /\ ~NotDecimal(req[p].args.id)
         /\ ToDigits(DecimalValue(req[p].args.id)) = req[p].args.id)
        => out[p] = Resolved(FindUnique(IF req[p].op = "link" THEN links ELSE comments,
                                        DecimalValue(req[p].args.id)))

\* C7: createContext always produces a context: authenticateUser yields null
\* for a missing or malformed header and for an invalid, expired or
\* unverifiable token, and the User of the token's userId (or null) for a valid
\* token; no request fails because of its token.
C7_AuthNeverFails ==
    \A p \in Slots :
        (req[p].op = "request" /\ pc[p] \in {"execute", "done"}) =>
            LET token == BearerToken(req[p].header)
                valid == /\ token # Null
                         /\ Len(token[1]) = 1
                         /\ token[1][1].kind = "jwt"
                         /\ token[1][1].sig = "good"
                         /\ token[1][1].exp = "live"
            IN  /\ pc[p] = "execute"
                /\ out[p].status # "error"
                /\ ctx[p].currentUser =
                     IF valid THEN FindUnique(users, token[1][1].userId) ELSE Null

\* C8: a postLink with a description and a url creates exactly one Link, whose
\* id no Link of the store had at that moment, with the given description and
\* url, and which no Comment references: its comments list resolves to empty.
C8_PostLinkCreatesFreshLink ==
    [][\A p \in Slots :
          /\ Stepped(p, "postLink_create", "done") =>
               /\ out'[p].status = "ok"
               /\ out'[p].data # Null
               /\ LET l == out'[p].data[1]
                  IN  /\ l.id \in Nat
                      /\ \A k \in links : k.id # l.id
                      /\ l.description = req[p].args.description
                      /\ l.url = req[p].args.url
                      /\ links' = links \cup {l}
                      /\ Cardinality(links') = Cardinality(links) + 1
                      /\ comments' = comments
                      /\ \A c \in comments' : c.linkId # Some(l.id)
          /\ (/\ req[p].op = "postLink" /\ pc[p] = "done"
              /\ out[p].comments = Null /\ out'[p].comments # Null)
             => out'[p].comments = Some(<<>>)
          /\ (pc[p] = "execute" /\ req'[p].op = "postLink"
                /\ req'[p].args.description # <<>> /\ req'[p].args.url # <<>>)
             => pc'[p] = "postLink_create"]_vars

\* C8 witness: after a post and a comment on the first Link, a second Link was
\* created and its comments list was resolved
C8_Witness ==
    \E p \in Slots :
        /\ pc[p] = "done"
        /\ req[p].op = "postLink"
        /\ out[p].status = "ok"
        /\ out[p].data[1].id = 2
        /\ out[p].comments = Some(<<>>)
        /\ comments # {}

\* C9: in every state, every Comment with a linkId references a Link of the
\* store.
C9_CommentsReferenceLinks ==
    \A c \in comments : c.linkId # Null => \E l \in links : l.id = c.linkId[1]

\* C9 witness: a Link was deleted, a create racing with the delete was refused,
\* and the store still holds a Comment
C9_Witness ==
    \E p, q \in Slots :
        /\ pc[p] = "done" /\ req[p].op = "deleteLink" /\ out[p].status = "ok"
        /\ pc[q] = "done" /\ req[q].op = "postCommentOnLink" /\ out[q].status = "error"
        /\ out[q].err.text = "Cannot post comment on non-existing link with id"
        /\ comments # {}

\* C10: a deleteLink, deleteCommentOnLink or updateCommentOnLink with a numeric
\* id that fails, fails with the 'does not exist' GraphQLError of its entity,
\* also when the row was removed by a concurrent request after the existence
\* check.
C10_MissingRowIsDoesNotExist ==
    \A p \in Slots :
        (/\ pc[p] = "done"
         /\ req[p].op \in {"deleteLink", "deleteCommentOnLink", "updateCommentOnLink"}
         /\ ~NotDecimal(req[p].args.id)
         /\ out[p].status = "error")
        => /\ out[p].err.name = "GraphQLError"
           /\ out[p].err.text = IF req[p].op = "deleteLink"
                                THEN "Link with ID does not exist."
                                ELSE "Comment with ID does not exist."

====
